---- MODULE Spec2Model ----
(***************************************************************************)
(* RecipeMaster: the recipe loader (utils.load_recipes with                *)
(* generate_unique_id and parse_filipino_recipe), the filter/paginate      *)
(* engine (utils.filter_recipes) and the load block of main.py.            *)
(*                                                                         *)
(* Encoding of Python/JSON values.  A string is a sequence of character    *)
(* tokens (<<"t","e","a">>).  A JSON value is a record                      *)
(*   [k, n, s, l]  with k the type tag ("null", "int", "str", "list",      *)
(*   "mixedlist"), n the integer payload, s the string payload and l the   *)
(*   payload of a list of strings; "mixedlist" is a list holding an        *)
(*   element that is not a string.  A JSON object (Python dict) is a       *)
(*   function from its keys to JSON values, so `key in d` is               *)
(*   key \in DOMAIN d.                                                     *)
(***************************************************************************)
EXTENDS Integers, Sequences, FiniteSets, TLC

\* ------------------------------------------------------------ bounds
\* Number of *.json files glob may find in the directory.
MaxFiles == 2
\* Number of records all the files of the directory hold together.
MaxRecords == 2

\* ------------------------------------------------------------ values
Null == [k |-> "null", n |-> 0, s |-> <<>>, l |-> <<>>]
IntV(i) == [k |-> "int", n |-> i, s |-> <<>>, l |-> <<>>]
StrV(x) == [k |-> "str", n |-> 0, s |-> x, l |-> <<>>]
ListV(x) == [k |-> "list", n |-> 0, s |-> <<>>, l |-> x]
\* a list one of whose elements is not a string, e.g. ["salt", 3]
MixedListV(x) == [k |-> "mixedlist", n |-> 0, s |-> <<>>, l |-> x]

Range(f) == {f[i] : i \in DOMAIN f}

RECURSIVE Concat(_)
Concat(ss) == IF ss = <<>> THEN <<>> ELSE Head(ss) \o Concat(Tail(ss))

\* dict.get(key, default)
Get(d, key, default) == IF key \in DOMAIN d THEN d[key] ELSE default

\* d with d[key] = v
Put(d, key, v) == [x \in DOMAIN d \cup {key} |-> IF x = key THEN v ELSE d[x]]

Ok(v) == [ok |-> TRUE, val |-> v, exc |-> "none"]
Raise(cls) == [ok |-> FALSE, val |-> Null, exc |-> cls]

\* ------------------------------------------------------------ str.replace
IsPrefix(p, s) == Len(p) <= Len(s) /\ SubSeq(s, 1, Len(p)) = p

\* s.replace(old, ''): every non-overlapping occurrence of old, left to right
RECURSIVE Replace(_, _)
Replace(s, old) ==
    IF s = <<>> THEN <<>>
    ELSE IF IsPrefix(old, s) THEN Replace(SubSeq(s, Len(old) + 1, Len(s)), old)
    ELSE <<Head(s)>> \o Replace(Tail(s), old)

\* The literal of utils.py line 137: the three characters U+00E2 U+2013 U+00A2
\* (what the UTF-8 bytes of U+25A2 read as under cp1252) and a space.
\* "BOX" is the glyph U+25A2 itself.
BULLET_LITERAL == <<"A_CIRC", "EN_DASH", "CENT", " ">>

\* ------------------------------------------------------------ parse_filipino_recipe
\* [ing.replace(BULLET, '') for ing in v]
StripIngredients(v) ==
    CASE v.k = "list" -> Ok(ListV([i \in DOMAIN v.l |-> Replace(v.l[i], BULLET_LITERAL)]))
      [] v.k = "str" -> Ok(ListV([i \in DOMAIN v.s |-> Replace(<<v.s[i]>>, BULLET_LITERAL)]))
      [] v.k = "mixedlist" -> Raise("AttributeError")
      [] OTHER -> Raise("TypeError")

UNKNOWN_FILIPINO == StrV(<<"Unknown Filipino Recipe">>)
MEDIUM == StrV(<<"Medium">>)
PREP_15 == StrV(<<"15 minutes">>)
COOK_30 == StrV(<<"30 minutes">>)
SERVINGS_4 == StrV(<<"4">>)
FILIPINO_DISHES == <<"Filipino Dishes">>

\* The categories value [recipe.get('category', 'Filipino Dishes')]: a one-element
\* list; a category that is not a string makes it a list of a non-string.
CategoryList(recipe) ==
    LET c == Get(recipe, "category", StrV(FILIPINO_DISHES))
    IN IF c.k = "str" THEN ListV(<<c.s>>) ELSE MixedListV(<<>>)

parse_filipino_recipe(recipe) ==
    LET ings == StripIngredients(Get(recipe, "ingredients", ListV(<<>>)))
    IN IF ~ings.ok THEN ings
       ELSE Ok([name |-> Get(recipe, "title", UNKNOWN_FILIPINO),
                difficulty |-> MEDIUM,
                prep_time |-> PREP_15,
                cook_time |-> Get(recipe, "cooking_time", COOK_30),
                servings |-> Get(recipe, "servings", SERVINGS_4),
                ingredients |-> ings.val,
                instructions |-> Get(recipe, "instructions", ListV(<<>>)),
                categories |-> CategoryList(recipe)])

\* ------------------------------------------------------------ generate_unique_id
ID_SPACE == 1000000

\* Stand-in for int(hashlib.md5(content).hexdigest(), 16): a fixed function of
\* the content alone.  The weights put contents on the edges of the id space.
CharCode(c) ==
    CASE c = "t" -> 1000000
      [] c = "z" -> 999999
      [] c = "e" -> 2000001
      [] OTHER -> 7

RECURSIVE md5_int(_)
md5_int(content) ==
    IF content = <<>> THEN 0 ELSE CharCode(Head(content)) + md5_int(Tail(content))

\* f"{recipe['name']}": str() of the name
Format(v) ==
    CASE v.k = "str" -> v.s
      [] v.k = "null" -> <<"N", "o", "n", "e">>
      [] v.k = "int" -> <<"#">>
      [] OTHER -> <<"[", "]">>

\* ''.join(recipe['ingredients'])
Join(v) ==
    CASE v.k = "list" -> Ok(Concat(v.l))
      [] v.k = "str" -> Ok(v.s)
      [] OTHER -> Raise("TypeError")

RECURSIVE Probe(_, _)
Probe(new_id, seen) ==
    IF IntV(new_id) \in seen
    THEN Probe(IF new_id + 1 > ID_SPACE THEN 1 ELSE new_id + 1, seen)
    ELSE new_id

BaseId(content) == (md5_int(content) % ID_SPACE) + 1

\* generate_unique_id without the probe loop of lines 119-122
generate_unique_id_no_probe(recipe, seen) ==
    LET j == Join(recipe["ingredients"])
    IN IF ~j.ok THEN j
       ELSE Ok(BaseId(Format(recipe["name"]) \o j.val))

\* Lines 119-122: the while loop ends only at a candidate that is not in
\* seen_ids; the candidates are 1..ID_SPACE, so when seen_ids holds every one of
\* them the loop never ends and the call never returns.
NoFreeId(seen) == \A i \in 1..ID_SPACE : IntV(i) \in seen

NeverReturns == [ok |-> FALSE, val |-> Null, exc |-> "never returns"]

generate_unique_id(recipe, seen) ==
    LET j == Join(recipe["ingredients"])
    IN IF ~j.ok THEN j
       ELSE IF NoFreeId(seen) THEN NeverReturns
       ELSE Ok(Probe(BaseId(Format(recipe["name"]) \o j.val), seen))

\* ------------------------------------------------------------ load_recipes: one record
REQUIRED_FIELDS ==
    <<"name", "difficulty", "prep_time", "cook_time", "servings",
      "ingredients", "instructions">>

\* [field for field in required_fields if field not in recipe]
MissingFields(recipe) ==
    SelectSeq(REQUIRED_FIELDS, LAMBDA f : f \notin DOMAIN recipe)

Warning(kind, file, old, new) == [w |-> kind, file |-> file, old |-> old, new |-> new]

\* A list is unhashable: `x in seen_ids` and seen_ids.add(x) raise TypeError.
Hashable(v) == v.k \notin {"list", "mixedlist"}

\* Lines 62-79: the id of the record and the record with it.
ResolveId(recipe, seen, file) ==
    LET recipe_id == Get(recipe, "id", Null)
        g == generate_unique_id(recipe, seen)
    IN IF recipe_id.k = "null"
       THEN IF ~g.ok THEN g
            ELSE Ok([recipe |-> Put(recipe, "id", IntV(g.val)),
                     warns |-> <<Warning("auto_generated_id", file, Null, IntV(g.val))>>])
       ELSE IF ~Hashable(recipe_id) THEN Raise("TypeError")
       ELSE IF recipe_id \in seen
       THEN IF ~g.ok THEN g
            ELSE Ok([recipe |-> Put(recipe, "id", IntV(g.val)),
                     warns |-> <<Warning("duplicate_id", file, recipe_id, IntV(g.val))>>])
       ELSE Ok([recipe |-> recipe, warns |-> <<>>])

\* Lines 59-60
DefaultCategories(recipe) ==
    IF "categories" \notin DOMAIN recipe THEN Put(recipe, "categories", ListV(<<>>))
    ELSE recipe

\* Lines 80-86
Entry(recipe) ==
    [id |-> recipe["id"], name |-> recipe["name"], difficulty |-> recipe["difficulty"],
     categories |-> recipe["categories"], preview_data |-> recipe]

NoEntry == [id |-> Null, name |-> Null, difficulty |-> Null, categories |-> Null,
            preview_data |-> <<>>]

Outcome(out, warns, entry) == [out |-> out, warns |-> warns, entry |-> entry]

\* Lines 40-86, one iteration of the record loop: "skip" (continue), "add" (the
\* record is appended), "raise" (an exception leaves the loop) or "hang" (the
\* iteration never ends).
ProcessOne(item, filipino, seen, file) ==
    IF ~item.isdict
    THEN Outcome("skip", <<Warning("invalid_format", file, Null, Null)>>, NoEntry)
    ELSE LET p == IF filipino THEN parse_filipino_recipe(item.d) ELSE Ok(item.d)
         IN IF ~p.ok THEN Outcome("raise", <<>>, NoEntry)
            ELSE IF MissingFields(p.val) # <<>>
            THEN Outcome("skip", <<Warning("missing_fields", file, Null, Null)>>, NoEntry)
            ELSE LET r == ResolveId(DefaultCategories(p.val), seen, file)
                 IN IF r = NeverReturns THEN Outcome("hang", <<>>, NoEntry)
                    ELSE IF ~r.ok THEN Outcome("raise", <<>>, NoEntry)
                    ELSE Outcome("add", r.val.warns, Entry(r.val.recipe))

\* ------------------------------------------------------------ load_recipes: one file
\* 'filipino_recipes_page_' in os.path.basename(file_path).lower()
FileNames == {"recipes.json", "Filipino_Recipes_Page_1.json"}
IsFilipino(name) == name = "Filipino_Recipes_Page_1.json"

\* json.load results: "invalid" (JSONDecodeError), "scalar" (a number, a string,
\* null), "list", "obj_recipes_list" ({"recipes": [...]}), "obj_recipes_single"
\* ({"recipes": <not a list>}) and "obj" (an object with no "recipes" key).
Data(t, items, rec) == [t |-> t, items |-> items, rec |-> rec]

\* Lines 36-38
RecipesOf(data) ==
    CASE data.t = "list" -> Ok(data.items)
      [] data.t = "scalar" -> Raise("AttributeError")
      [] data.t = "obj" -> Ok(<<>>)
      [] data.t = "obj_recipes_list" -> Ok(data.items)
      [] data.t = "obj_recipes_single" -> Ok(<<data.items[1]>>)

\* An exception: its class, its message and the warnings the message lists.
\* Lines 109-110: whatever is raised inside leaves as a plain Exception.
Reraise(e) ==
    [cls |-> "Exception", msg |-> <<"Failed to load recipes: ">> \o e.msg, listed |-> e.listed]

\* Lines 24-27
NoFilesError ==
    [cls |-> "FileNotFoundError", msg |-> <<"No recipe files found in the directory.">>,
     listed |-> <<>>]

\* Lines 94-97: the message is a fixed text; `listed` is the warnings it names.
NoValidError == [cls |-> "ValueError", msg |-> <<"No valid recipes found.">>, listed |-> <<>>]

NoError == [cls |-> "none", msg |-> <<>>, listed |-> <<>>]

\* ------------------------------------------------------------ inputs
Base(name, ings) ==
    [name |-> StrV(name), difficulty |-> StrV(<<"Easy">>),
     prep_time |-> StrV(<<"1 minute">>), cook_time |-> StrV(<<"3 minutes">>),
     servings |-> IntV(1), ingredients |-> ListV(ings),
     instructions |-> ListV(<< <<"Boil">> >>)]

Without(d, key) == [x \in DOMAIN d \ {key} |-> d[x]]

\* Records in the canonical schema.
StdRecords ==
    { Put(Put(Base(<<"t">>, <<>>), "id", IntV(1)), "categories", ListV(<< <<"Drinks">> >>)),
      Put(Base(<<"z">>, <<>>), "id", IntV(1)),
      Put(Base(<<"t">>, <<>>), "id", Null),
      Base(<<"z">>, << <<"t">> >>),
      Put(Put(Base(<<"e">>, <<>>), "instructions", Null), "id", IntV(1000000)),
      Without(Base(<<"t">>, <<>>), "servings"),
      Put(Base(<<"t">>, <<>>), "ingredients", Null),
      Put(Base(<<"t">>, <<>>), "id", ListV(<<>>)) }

\* Records in the alternate dialect.
FilipinoRecords ==
    { [title |-> StrV(<<"t">>),
       ingredients |-> ListV(<< <<"BOX", " ", "c">>, <<"A_CIRC", "EN_DASH", "CENT", " ", "s">> >>),
       instructions |-> ListV(<< <<"Cook">> >>),
       cooking_time |-> StrV(<<"1 hour">>),
       category |-> StrV(<<"Pork">>),
       url |-> StrV(<<"u">>)],
      [title |-> StrV(<<"e">>), ingredients |-> MixedListV(<<>>),
       instructions |-> ListV(<< <<"Cook">> >>)] }

DictItem(d) == [isdict |-> TRUE, d |-> d]
NonDictItem == [isdict |-> FALSE, d |-> <<>>]

Items == {DictItem(d) : d \in StdRecords \cup FilipinoRecords} \cup {NonDictItem}

ItemLists(n) == UNION {[1..k -> Items] : k \in 0..n}

\* What json.load may give for a file holding at most n records.
FileDatas(n) ==
    {Data("invalid", <<>>, <<>>), Data("scalar", <<>>, <<>>)}
    \cup {Data("list", l, <<>>) : l \in ItemLists(n)}
    \cup {Data("obj_recipes_list", l, <<>>) : l \in ItemLists(n)}
    \cup {Data("obj_recipes_single", <<i>>, <<>>) : i \in IF n > 0 THEN Items ELSE {}}
    \cup {Data("obj", <<>>, d) : d \in IF n > 0 THEN StdRecords \cup FilipinoRecords ELSE {}}

RecordsIn(data) == IF data.t = "obj" THEN 1 ELSE Len(data.items)

\* ------------------------------------------------------------ what a load should keep
\* A record of the data model (spec section 3): every required field, a string
\* name, ingredients and instructions that are lists of strings, an id that is
\* absent or a scalar.
ValidRecipe(r) ==
    /\ MissingFields(r) = <<>>
    /\ r["name"].k = "str"
    /\ r["ingredients"].k = "list"
    /\ r["instructions"].k = "list"
    /\ Get(r, "id", Null).k \in {"null", "int", "str"}

Normalized(item, filipino) ==
    IF filipino THEN parse_filipino_recipe(item.d) ELSE Ok(item.d)

ValidItem(item, filipino) ==
    /\ item.isdict
    /\ Normalized(item, filipino).ok
    /\ ValidRecipe(Normalized(item, filipino).val)

\* The record without its id and categories, which the loader may set.
Core(recipe) == [f \in Range(REQUIRED_FIELDS) |-> recipe[f]]

ValidCores(list, filipino) ==
    LET sel == SelectSeq(list, LAMBDA it : ValidItem(it, filipino))
    IN [i \in DOMAIN sel |-> Core(Normalized(sel[i], filipino).val)]

\* ------------------------------------------------------------ state
VARIABLES
    pc,           \* where load_recipes / main.py stands
    n_files,      \* len(json_files)
    fi,           \* index of file_path in json_files
    file_name,    \* os.path.basename(file_path)
    data,         \* json.load(f) of the current file
    recipes,      \* the record list of the current file
    ri,           \* index of the next record of recipes
    n_read,       \* records read so far (bounds the run)
    all_recipes,  \* load_recipes: all_recipes
    seen_ids,     \* load_recipes: seen_ids
    warnings,     \* load_recipes: warnings
    error,        \* the exception load_recipes raised
    screen,       \* what main.py shows after the load
    offered,      \* history: the valid records of the lists read so far
    df,           \* filter_recipes: the collection, one row per recipe
    query,        \* filter_recipes: search_term, difficulty, category, favorites
    per_page,     \* filter_recipes: per_page
    result,       \* what the last call of filter_recipes gave
    pages,        \* history: the pages 1, 2, ... received so far, in order
    raw,          \* parse_filipino_recipe: the record passed in
    parsed,       \* parse_filipino_recipe: what it gave
    files,        \* the directory: its files in glob order, each a name and a content
    run,          \* which call of load_recipes on the directory this is
    first,        \* what the first call on the directory gave
    gen_recipe,   \* generate_unique_id: recipe
    gen_seen,     \* generate_unique_id: seen_ids, as the ids it holds or lacks
    gen_result,   \* generate_unique_id: what the call gave
    recipes_df,            \* main.py: st.session_state.recipes_df
    st_page_number,        \* main.py: st.session_state.page_number
    st_favorites,          \* main.py: st.session_state.favorites
    st_prev_show_favorites,\* main.py: st.session_state.prev_show_favorites
    st_search_term,        \* main.py: search_term, the text of the search box
    selected_difficulty,   \* main.py: selected_difficulty
    selected_category,     \* main.py: selected_category
    st_show_favorites,     \* main.py: show_favorites, the checkbox
    view                   \* main.py: what the filter_recipes call of the last run gave

loadVars == <<pc, n_files, fi, file_name, data, recipes, ri, n_read, all_recipes,
              seen_ids, warnings, error, screen, offered>>

filterVars == <<df, query, per_page, result, pages>>

parseVars == <<raw, parsed>>

dirVars == <<files, run, first>>

genVars == <<gen_recipe, gen_seen, gen_result>>

listVars == <<recipes_df, st_page_number, st_favorites, st_prev_show_favorites,
              st_search_term, selected_difficulty, selected_category, st_show_favorites,
              view>>

vars == <<loadVars, filterVars, parseVars, dirVars, genVars, listVars>>

\* What load_recipes does not touch, and likewise for the other functions.
nonLoadVars == <<filterVars, parseVars, dirVars, genVars, listVars>>

nonFilterVars == <<loadVars, parseVars, dirVars, genVars, listVars>>

nonParseVars == <<loadVars, filterVars, dirVars, genVars, listVars>>

nonGenVars == <<loadVars, filterVars, parseVars, dirVars, listVars>>

nonListVars == <<loadVars, filterVars, parseVars, dirVars, genVars>>

NoData == Data("none", <<>>, <<>>)

LoadInit ==
    /\ pc = "start"
    /\ n_files = 0
    /\ fi = 0
    /\ file_name = "none"
    /\ data = NoData
    /\ recipes = <<>>
    /\ ri = 1
    /\ n_read = 0
    /\ all_recipes = <<>>
    /\ seen_ids = {}
    /\ warnings = <<>>
    /\ error = NoError
    /\ screen = "loading"
    /\ offered = <<>>

\* Lines 20-27 and 109-110, glob found n files: no file raises.
Found(n) ==
    /\ n_files' = n
    /\ IF n = 0
       THEN /\ error' = Reraise(NoFilesError)
            /\ pc' = "raised"
            /\ fi' = fi
       ELSE /\ error' = error
            /\ pc' = "open"
            /\ fi' = 1
    /\ UNCHANGED <<file_name, data, recipes, ri, n_read, all_recipes, seen_ids,
                   warnings, screen, offered>>

\* Lines 15-27 and 109-110: glob the directory.
Discover ==
    /\ pc = "start"
    /\ \E n \in 0..MaxFiles : Found(n)
    /\ UNCHANGED nonLoadVars

\* The for loop over json_files moves on (line 29).
NextFile ==
    IF fi = n_files
    THEN pc' = "finish" /\ fi' = fi
    ELSE pc' = "open" /\ fi' = fi + 1

\* Lines 29-38 and 88-91 for the file `name` whose content json.load reads as d.
Opened(name, d) ==
    LET rs == RecipesOf(d)
    IN /\ file_name' = name
       /\ data' = d
       /\ n_read' = n_read + RecordsIn(d)
       /\ IF d.t = "invalid"
          THEN /\ warnings' = Append(warnings, Warning("invalid_json", fi, Null, Null))
               /\ NextFile
               /\ UNCHANGED <<recipes, ri, offered>>
          ELSE IF ~rs.ok
          THEN /\ warnings' = Append(warnings, Warning("error_processing", fi, Null, Null))
               /\ NextFile
               /\ UNCHANGED <<recipes, ri, offered>>
          ELSE /\ recipes' = rs.val
               /\ ri' = 1
               /\ offered' = offered \o ValidCores(rs.val, IsFilipino(name))
               /\ pc' = "loop"
               /\ UNCHANGED <<warnings, fi>>
       /\ UNCHANGED <<n_files, all_recipes, seen_ids, error, screen>>

\* Lines 29-38 and 88-91: open and parse one file, find its record list.
OpenFile ==
    /\ pc = "open"
    /\ \E name \in FileNames, d \in FileDatas(MaxRecords - n_read) : Opened(name, d)
    /\ UNCHANGED nonLoadVars

\* Lines 40-86 and 90-91: one record of the current file.
ProcessRecord ==
    /\ pc = "loop"
    /\ ri <= Len(recipes)
    /\ LET o == ProcessOne(recipes[ri], IsFilipino(file_name), seen_ids, fi)
       IN CASE o.out = "skip" ->
                 /\ warnings' = warnings \o o.warns
                 /\ ri' = ri + 1
                 /\ UNCHANGED <<pc, fi, all_recipes, seen_ids>>
            [] o.out = "add" ->
                 /\ warnings' = warnings \o o.warns
                 /\ seen_ids' = seen_ids \cup {o.entry.id}
                 /\ all_recipes' = Append(all_recipes, o.entry)
                 /\ ri' = ri + 1
                 /\ UNCHANGED <<pc, fi>>
            [] o.out = "raise" ->
                 /\ warnings' = Append(warnings, Warning("error_processing", fi, Null, Null))
                 /\ NextFile
                 /\ UNCHANGED <<ri, all_recipes, seen_ids>>
            [] o.out = "hang" ->
                 /\ pc' = "hung"
                 /\ UNCHANGED <<fi, ri, all_recipes, seen_ids, warnings>>
    /\ UNCHANGED <<n_files, file_name, data, recipes, n_read, error, screen, offered>>
    /\ UNCHANGED nonLoadVars

\* Line 40: the record list is exhausted.
EndFile ==
    /\ pc = "loop"
    /\ ri > Len(recipes)
    /\ NextFile
    /\ UNCHANGED <<n_files, file_name, data, recipes, ri, n_read, all_recipes, seen_ids,
                   warnings, error, screen, offered>>
    /\ UNCHANGED nonLoadVars

\* Lines 93-110: nothing loaded raises, else the frame is returned.
Finish ==
    /\ pc = "finish"
    /\ IF all_recipes = <<>>
       THEN error' = Reraise(NoValidError) /\ pc' = "raised"
       ELSE error' = error /\ pc' = "returned"
    /\ UNCHANGED <<n_files, fi, file_name, data, recipes, ri, n_read, all_recipes,
                   seen_ids, warnings, screen, offered>>
    /\ UNCHANGED nonLoadVars

\* main.py lines 137-151: the first except clause whose class the exception is.
HandlerFor(e) ==
    CASE e.cls = "FileNotFoundError" -> "add_files_hint"
      [] e.cls = "ValueError" -> "required_fields_hint"
      [] OTHER -> "unexpected_error"

MainLoad ==
    /\ pc \in {"raised", "returned"}
    /\ IF pc = "raised"
       THEN screen' = HandlerFor(error) /\ pc' = "stopped"
       ELSE screen' = "browser" /\ pc' = "loaded"
    /\ UNCHANGED <<n_files, fi, file_name, data, recipes, ri, n_read, all_recipes,
                   seen_ids, warnings, error, offered>>
    /\ UNCHANGED nonLoadVars

\* ------------------------------------------------------------ filter_recipes
\* str.lower() on the characters of the model's alphabet
LowerChar(c) ==
    CASE c = "A" -> "a"
      [] c = "B" -> "b"
      [] OTHER -> c

Lower(str) == [i \in DOMAIN str |-> LowerChar(str[i])]

\* re.compile(pat): over the model's alphabet a pattern is letters, "." and "(";
\* a "(" that nothing closes is an error ("missing ), unterminated subpattern").
RegexCompiles(pat) == "(" \notin Range(pat)

\* A pattern character against a subject character: "." is any character.
RegexCharMatches(pc_, c) == pc_ = "." \/ pc_ = c

\* re.search(pat, str) for a pattern that compiled
RegexSearch(pat, str) ==
    \E i \in 0..(Len(str) - Len(pat)) :
        \A j \in 1..Len(pat) : RegexCharMatches(pat[j], str[i + j])

\* Series.str.contains(pat, na=False), regex=True by default: one row's mask bit
NameMask(name, pat) ==
    IF name.k # "str" THEN FALSE ELSE RegexSearch(pat, Lower(name.s))

\* Lines 162-163
FavoritesStep(rows, show_favorites, favorites) ==
    IF show_favorites /\ favorites.given
    THEN SelectSeq(rows, LAMBDA r : r.id.k = "int" /\ r.id.n \in favorites.ids)
    ELSE rows

\* Lines 165-168, for a term that compiles
SearchStep(rows, search_term) ==
    IF search_term # <<>>
    THEN SelectSeq(rows, LAMBDA r : NameMask(r.name, Lower(search_term)))
    ELSE rows

\* Python truth of an Optional[str]
Truthy(v) == v.k = "str" /\ v.s # <<>>

ALL == StrV(<<"All">>)

\* Lines 170-171
DifficultyStep(rows, difficulty) ==
    IF Truthy(difficulty) /\ difficulty # ALL
    THEN SelectSeq(rows, LAMBDA r : r.difficulty = difficulty)
    ELSE rows

\* Lines 173-174
CategoryStep(rows, category) ==
    IF Truthy(category) /\ category # ALL
    THEN SelectSeq(rows, LAMBDA r : r.categories.k = "list" /\ category.s \in Range(r.categories.l))
    ELSE rows

\* Lines 160-174 with the search step left out whenever a difficulty is chosen
FilteredRowsDifficultyOverSearch(rows, q) ==
    IF Truthy(q.difficulty) /\ q.difficulty # ALL
    THEN CategoryStep(
             DifficultyStep(FavoritesStep(rows, q.show_favorites, q.favorites), q.difficulty),
             q.category)
    ELSE CategoryStep(
             SearchStep(FavoritesStep(rows, q.show_favorites, q.favorites), q.search_term),
             q.category)

\* Lines 160-174: filtered_df
FilteredRows(rows, q) ==
    CategoryStep(
        DifficultyStep(
            SearchStep(FavoritesStep(rows, q.show_favorites, q.favorites), q.search_term),
            q.difficulty),
        q.category)

\* Line 165-167: the term is compiled whenever it is not empty.
SearchRaises(q) == q.search_term # <<>> /\ ~RegexCompiles(Lower(q.search_term))

\* Line 177 with the division rounding down
TotalPagesFloor(total_recipes, size) == total_recipes \div size

\* Line 177
TotalPages(total_recipes, size) == (total_recipes + size - 1) \div size

\* A slice bound as Python (and iloc) reads it: negative counts from the end.
SliceBound(i, n) ==
    IF i < 0 THEN (IF n + i < 0 THEN 0 ELSE n + i) ELSE (IF i > n THEN n ELSE i)

\* rows.iloc[start:end]
PySlice(rows, start, end) ==
    LET lo == SliceBound(start, Len(rows))
        hi == SliceBound(end, Len(rows))
    IN IF lo < hi THEN SubSeq(rows, lo + 1, hi) ELSE <<>>

\* Lines 179-181
Paginate(rows, page, size) ==
    PySlice(rows, (page - 1) * size, (page - 1) * size + size)

Result(status, rows, total_pages, page) ==
    [status |-> status, rows |-> rows, total_pages |-> total_pages, page |-> page]

\* Lines 156-183
\* df is frame, per_page is size
filter_recipes(frame, q, page, size) ==
    IF frame = <<>> THEN Result("ok", frame, 0, page)
    ELSE IF SearchRaises(q) THEN Result("raised", <<>>, 0, page)
    ELSE Result("ok", Paginate(FilteredRows(frame, q), page, size),
                TotalPages(Len(FilteredRows(frame, q)), size), page)

\* ------------------------------------------------------------ filter_recipes: inputs
\* Largest collection and largest per_page.
MaxRows == 3
MaxPerPage == 2

Row(id, name, difficulty, cats) ==
    [id |-> IntV(id), name |-> StrV(name), difficulty |-> StrV(<<difficulty>>),
     categories |-> ListV(cats)]

RowPool ==
    { Row(1, <<"A", "b">>, "Easy", << <<"Drinks">> >>),
      Row(2, <<"a", ".">>, "Hard", <<>>),
      Row(3, <<"b", "a">>, "Easy", << <<"Drinks">>, <<"Soup">> >>),
      Row(4, <<"b">>, "Hard", << <<"Soup">> >>) }

\* Collections: rows with pairwise different ids, in any order.
Frames ==
    UNION {{f \in [1..k -> RowPool] : \A i, j \in 1..k : i # j => f[i] # f[j]} : k \in 0..MaxRows}

SearchTerms == {<<>>, <<"A">>, <<"a", ".">>, <<"(">>}

Favorites(given, ids) == [given |-> given, ids |-> ids]

Queries ==
    [search_term : SearchTerms,
     difficulty : {Null, StrV(<<"Easy">>)},
     category : {ALL, StrV(<<"Drinks">>)},
     show_favorites : BOOLEAN,
     favorites : {Favorites(FALSE, {}), Favorites(TRUE, {1, 3})}]

\* Page numbers asked for: below 1, within the pages, and beyond the last one.
PageNumbers == (0 - 1)..(MaxRows + 1)

NoResult == Result("none", <<>>, 0, 0)

FilterIdle ==
    /\ df = <<>>
    /\ query = [search_term |-> <<>>, difficulty |-> Null, category |-> Null,
                show_favorites |-> FALSE, favorites |-> Favorites(FALSE, {})]
    /\ per_page = 10
    /\ result = NoResult
    /\ pages = <<>>

FilterInit ==
    /\ df \in Frames
    /\ query \in Queries
    /\ per_page \in 1..MaxPerPage
    /\ result = NoResult
    /\ pages = <<>>

\* One call of filter_recipes(df, ..., page, per_page); the page that follows the
\* ones already received is added to the history.
Query ==
    /\ \E page \in PageNumbers :
         LET r == filter_recipes(df, query, page, per_page)
         IN /\ result' = r
            /\ pages' = IF r.status = "ok" /\ page = Len(pages) + 1 /\ page <= r.total_pages
                        THEN Append(pages, r.rows)
                        ELSE pages
    /\ UNCHANGED <<df, query, per_page>>
    /\ UNCHANGED nonFilterVars

\* ------------------------------------------------------------ parse_filipino_recipe: inputs
\* Longest ingredient list passed to parse_filipino_recipe.
MaxIngredients == 2

\* An ingredient as the file gives it: with the bullet glyph read correctly, with
\* the glyph read as cp1252, and without a bullet.
IngredientStrings ==
    { <<"BOX", " ", "c">>, <<"A_CIRC", "EN_DASH", "CENT", " ", "c">>, <<"s">> }

IngredientValues ==
    {ListV(l) : l \in UNION {[1..k -> IngredientStrings] : k \in 0..MaxIngredients}}
    \cup {MixedListV(<<>>), Null}

FullRaw(ing) ==
    [title |-> StrV(<<"t">>), cooking_time |-> StrV(<<"1 hour">>), servings |-> IntV(6),
     category |-> StrV(<<"Pork">>), instructions |-> ListV(<< <<"Cook">> >>),
     url |-> StrV(<<"u">>), ingredients |-> ing]

Restrict(d, keys) == [x \in DOMAIN d \cap keys |-> d[x]]

OptionalKeys == {"title", "cooking_time", "servings", "category", "instructions", "url"}

RawRecords ==
    {Restrict(FullRaw(ing), K \cup {"ingredients"}) :
        K \in SUBSET OptionalKeys, ing \in IngredientValues}
    \cup {Restrict(FullRaw(Null), K) : K \in SUBSET OptionalKeys}

NotParsed == [ok |-> FALSE, val |-> Null, exc |-> "not called"]

ParseIdle ==
    /\ raw = <<>>
    /\ parsed = NotParsed

ParseInit ==
    /\ raw \in RawRecords
    /\ parsed = NotParsed

\* One call of parse_filipino_recipe(raw)
Parse ==
    /\ parsed = NotParsed
    /\ parsed' = parse_filipino_recipe(raw)
    /\ UNCHANGED raw
    /\ UNCHANGED nonParseVars

\* ------------------------------------------------------------ load_recipes, twice
\* Records of the directories loaded twice: an explicit id, the same id again under
\* another name, and a null id whose record hashes to that id.
DirRecords ==
    { Put(Put(Base(<<"t">>, <<>>), "id", IntV(1)), "categories", ListV(<< <<"Drinks">> >>)),
      Put(Base(<<"z">>, <<>>), "id", IntV(1)),
      Put(Base(<<"t">>, <<>>), "id", Null) }

DirItemLists(n) == UNION {[1..k -> {DictItem(d) : d \in DirRecords}] : k \in 0..n}

\* A file of the directory: its name and what json.load reads from it.
DirFiles(n) ==
    {[name |-> nm, d |-> d] :
        nm \in FileNames,
        d \in {Data("invalid", <<>>, <<>>)} \cup {Data("list", l, <<>>) : l \in DirItemLists(n)}}

\* The directories of at most k files holding at most n records together, each
\* in the order glob lists it.
RECURSIVE Directories(_, _)
Directories(k, n) ==
    IF k = 0 THEN {<<>>}
    ELSE {<<>>} \cup UNION {{<<f>> \o rest : rest \in Directories(k - 1, n - RecordsIn(f.d))} :
                               f \in DirFiles(n)}

\* What a call of load_recipes gave: how it ended, the rows of the frame it
\* returned, the warnings it printed, the exception it raised.
Loaded(end, rows, warns, exception) ==
    [pc |-> end, all_recipes |-> rows, warnings |-> warns, error |-> exception]

NoFirst == Loaded("none", <<>>, <<>>, NoError)

DirIdle ==
    /\ files = <<>>
    /\ run = 1
    /\ first = NoFirst

DirInit ==
    /\ files \in Directories(MaxFiles, MaxRecords)
    /\ run = 1
    /\ first = NoFirst

\* Lines 15-27 and 109-110 on the directory `files`
DiscoverDir ==
    /\ pc = "start"
    /\ Found(Len(files))
    /\ UNCHANGED nonLoadVars

\* Lines 29-38 and 88-91 on the file at hand of the directory `files`
OpenDirFile ==
    /\ pc = "open"
    /\ Opened(files[fi].name, files[fi].d)
    /\ UNCHANGED nonLoadVars

\* seen_ids of the call before
StaleSeenIds == seen_ids

\* Line 16: seen_ids = set()
FreshSeenIds == {}

\* load_recipes is called again on the same directory: lines 15-17 give the call
\* its own all_recipes, seen_ids and warnings.
LoadAgain ==
    /\ pc \in {"returned", "raised"}
    /\ run = 1
    /\ first' = Loaded(pc, all_recipes, warnings, error)
    /\ run' = 2
    /\ pc' = "start"
    /\ all_recipes' = <<>>
    /\ seen_ids' = FreshSeenIds
    /\ warnings' = <<>>
    /\ error' = NoError
    /\ n_files' = 0
    /\ fi' = 0
    /\ file_name' = "none"
    /\ data' = NoData
    /\ recipes' = <<>>
    /\ ri' = 1
    /\ n_read' = 0
    /\ offered' = <<>>
    /\ UNCHANGED <<screen, files>>
    /\ UNCHANGED <<filterVars, parseVars, genVars, listVars>>

\* ------------------------------------------------------------ generate_unique_id: inputs
\* Every id the probe loop can try.
AllIds == [k : {"int"}, n : 1..ID_SPACE, s : {<<>>}, l : {<<>>}]

\* A seen_ids set, written as the ids it holds (full = FALSE) or as the ids of
\* 1..ID_SPACE it lacks (full = TRUE).
SeenOf(full, ids) == [full |-> full, ids |-> ids]

SeenIds(d) ==
    IF d.full THEN AllIds \ {IntV(i) : i \in d.ids} ELSE {IntV(i) : i \in d.ids}

\* seen_ids sets: the ids at the edges of the id space, and sets that hold
\* every id, or every id but a few.
SeenSets ==
    {SeenOf(FALSE, ids) : ids \in SUBSET {1, 2, ID_SPACE}}
    \cup {SeenOf(TRUE, ids) : ids \in {{}, {3}, {1, 3}, {2, 3}}}

NotGenerated == [ok |-> FALSE, val |-> Null, exc |-> "not called"]

GenIdle ==
    /\ gen_recipe = <<>>
    /\ gen_seen = SeenOf(FALSE, {})
    /\ gen_result = NotGenerated

GenInit ==
    /\ gen_recipe \in StdRecords
    /\ gen_seen \in SeenSets
    /\ gen_result = NotGenerated

\* One call of generate_unique_id(recipe, seen_ids); the function reads
\* seen_ids and never writes it.
Generate ==
    /\ gen_result = NotGenerated
    /\ gen_result' = generate_unique_id(gen_recipe, SeenIds(gen_seen))
    /\ UNCHANGED <<gen_recipe, gen_seen>>
    /\ UNCHANGED nonGenVars

\* ------------------------------------------------------------ main.py: the list view
\* Largest collection shown, and most favorites a user marks.
MaxListed == 11
MaxFavorites == 2

\* main.py line 237: per_page=10
PER_PAGE == 10

\* The i-th recipe of the collection.
ListedRow(i) ==
    Row(i, IF i = 1 THEN <<"A", "b">> ELSE <<"b">>,
        IF i % 2 = 1 THEN "Easy" ELSE "Hard",
        IF i <= 2 THEN << <<"Drinks">> >> ELSE <<>>)

ListedFrames == {[i \in 1..n |-> ListedRow(i)] : n \in 1..MaxListed}

\* What a user types into the search box.
TypedTerms == {<<>>, <<"a">>, <<"(">>}

\* Lines 200 and 204-207: the options of the two select boxes.
Difficulties(frame) == {ALL} \cup {r.difficulty : r \in Range(frame)}

Categories(frame) ==
    {ALL} \cup {StrV(c) : c \in UNION {Range(r.categories.l) : r \in Range(frame)}}

\* Lines 229-238: the arguments of the filter_recipes call.
ListQuery(term, difficulty, category, show_favorites, favs) ==
    [search_term |-> term, difficulty |-> difficulty, category |-> category,
     show_favorites |-> show_favorites, favorites |-> Favorites(TRUE, favs)]

\* One run of the script in the list view, lines 191-238, from the session state
\* and the widget values an event left: the page is reset when the checkbox
\* differs from prev_show_favorites, then filter_recipes is called.
Rerun(page, favs, term, difficulty, category, show_favorites) ==
    LET p == IF show_favorites # st_prev_show_favorites THEN 1 ELSE page
    IN /\ st_page_number' = p
       /\ st_prev_show_favorites' = show_favorites
       /\ st_favorites' = favs
       /\ st_search_term' = term
       /\ selected_difficulty' = difficulty
       /\ selected_category' = category
       /\ st_show_favorites' = show_favorites
       /\ view' = filter_recipes(recipes_df,
                                 ListQuery(term, difficulty, category, show_favorites, favs),
                                 p, PER_PAGE)
       /\ UNCHANGED recipes_df

ListIdle ==
    /\ recipes_df = <<>>
    /\ st_page_number = 1
    /\ st_favorites = {}
    /\ st_prev_show_favorites = FALSE
    /\ st_search_term = <<>>
    /\ selected_difficulty = ALL
    /\ selected_category = ALL
    /\ st_show_favorites = FALSE
    /\ view = NoResult

\* Lines 123-134 and the first run of the script on a loaded collection.
ListInit ==
    /\ recipes_df \in ListedFrames
    /\ st_page_number = 1
    /\ st_favorites = {}
    /\ st_prev_show_favorites = FALSE
    /\ st_search_term = <<>>
    /\ selected_difficulty = ALL
    /\ selected_category = ALL
    /\ st_show_favorites = FALSE
    /\ view = filter_recipes(recipes_df, ListQuery(<<>>, ALL, ALL, FALSE, {}), 1, PER_PAGE)

\* Line 196: the user changes the text of the search box.
ChangeSearch ==
    /\ \E term \in TypedTerms \ {st_search_term} :
         Rerun(st_page_number, st_favorites, term, selected_difficulty,
               selected_category, st_show_favorites)
    /\ UNCHANGED nonListVars

\* Lines 199-201: the user selects another difficulty.
ChangeDifficulty ==
    /\ \E difficulty \in Difficulties(recipes_df) \ {selected_difficulty} :
         Rerun(st_page_number, st_favorites, st_search_term, difficulty,
               selected_category, st_show_favorites)
    /\ UNCHANGED nonListVars

\* Lines 203-208: the user selects another category.
ChangeCategory ==
    /\ \E category \in Categories(recipes_df) \ {selected_category} :
         Rerun(st_page_number, st_favorites, st_search_term, selected_difficulty,
               category, st_show_favorites)
    /\ UNCHANGED nonListVars

\* Lines 211-216: the user ticks or unticks "Show Favorites Only".
ToggleShowFavorites ==
    /\ Rerun(st_page_number, st_favorites, st_search_term, selected_difficulty,
             selected_category, ~st_show_favorites)
    /\ UNCHANGED nonListVars

\* Lines 241-250 and 335: the grid and, under it, the pagination controls are
\* drawn only when the page the call gave is not empty.
GridShown == view.status = "ok" /\ view.rows # <<>>

\* Lines 280-291 and 319-330: the favorite button of a recipe of the page.
ClickFavorite ==
    /\ GridShown
    /\ \E r \in Range(view.rows) :
         /\ r.id.n \in st_favorites \/ Cardinality(st_favorites) < MaxFavorites
         /\ Rerun(st_page_number,
                  IF r.id.n \in st_favorites THEN st_favorites \ {r.id.n}
                  ELSE st_favorites \cup {r.id.n},
                  st_search_term, selected_difficulty, selected_category, st_show_favorites)
    /\ UNCHANGED nonListVars

\* Lines 335-343: "Previous"
ClickPrevious ==
    /\ GridShown
    /\ view.total_pages > 1
    /\ st_page_number > 1
    /\ Rerun(st_page_number - 1, st_favorites, st_search_term, selected_difficulty,
             selected_category, st_show_favorites)
    /\ UNCHANGED nonListVars

\* Lines 335-352: "Next"
ClickNext ==
    /\ GridShown
    /\ view.total_pages > 1
    /\ st_page_number < view.total_pages
    /\ Rerun(st_page_number + 1, st_favorites, st_search_term, selected_difficulty,
             selected_category, st_show_favorites)
    /\ UNCHANGED nonListVars

\* ------------------------------------------------------------ specifications
Init == LoadInit /\ FilterIdle /\ ParseIdle /\ DirIdle /\ GenIdle /\ ListIdle

Next == Discover \/ OpenFile \/ ProcessRecord \/ EndFile \/ Finish \/ MainLoad

\* The loader and the load block of main.py
Spec == Init /\ [][Next]_vars

FilterSpecInit == LoadInit /\ FilterInit /\ ParseIdle /\ DirIdle /\ GenIdle /\ ListIdle

\* Calls of filter_recipes on a fixed collection
SpecFilter == FilterSpecInit /\ [][Query]_vars

ParseSpecInit == LoadInit /\ FilterIdle /\ ParseInit /\ DirIdle /\ GenIdle /\ ListIdle

\* Calls of parse_filipino_recipe
SpecParse == ParseSpecInit /\ [][Parse]_vars

ReloadInit == LoadInit /\ FilterIdle /\ ParseIdle /\ DirInit /\ GenIdle /\ ListIdle

ReloadNext == DiscoverDir \/ OpenDirFile \/ ProcessRecord \/ EndFile \/ Finish \/ LoadAgain

\* load_recipes called twice on one directory
SpecReload == ReloadInit /\ [][ReloadNext]_vars

GenSpecInit == LoadInit /\ FilterIdle /\ ParseIdle /\ DirIdle /\ GenInit /\ ListIdle

\* Calls of generate_unique_id
SpecGenerate == GenSpecInit /\ [][Generate]_vars

ListSpecInit == LoadInit /\ FilterIdle /\ ParseIdle /\ DirIdle /\ GenIdle /\ ListInit

ListNext ==
    \/ ChangeSearch \/ ChangeDifficulty \/ ChangeCategory \/ ToggleShowFavorites
    \/ ClickFavorite \/ ClickPrevious \/ ClickNext

\* A user in the list view of main.py
SpecList == ListSpecInit /\ [][ListNext]_vars

\* ------------------------------------------------------------ properties
Ids == [i \in DOMAIN all_recipes |-> all_recipes[i].id]

HasWarning(kind) == \E i \in DOMAIN warnings : warnings[i].w = kind

\* C1: in every state of a load, and so in the collection it returns, no two
\* records have the same id and no record has a null id.
C1_UniqueIds ==
    /\ \A i, j \in DOMAIN all_recipes : i # j => Ids[i] # Ids[j]
    /\ \A i \in DOMAIN all_recipes :
         /\ Ids[i].k # "null"
         /\ all_recipes[i].preview_data["id"] = Ids[i]

\* A load returned a collection in which one id was generated for a record
\* without one and one duplicate explicit id was replaced.
C1_Witness ==
    /\ pc = "returned"
    /\ Len(all_recipes) >= 2
    /\ HasWarning("auto_generated_id")
    /\ HasWarning("duplicate_id")

\* C2: with no *.json file in the directory, load_recipes fails with
\* FileNotFoundError, and main.py shows the hint of its FileNotFoundError clause.
C2_NotFoundKind ==
    /\ (pc = "raised" /\ n_files = 0) => error.cls = "FileNotFoundError"
    /\ (pc = "stopped" /\ n_files = 0) => screen = "add_files_hint"

\* The valid records of the collection, without id and categories.
LoadedCores ==
    LET sel == SelectSeq(all_recipes, LAMBDA e : ValidRecipe(e.preview_data))
    IN [i \in DOMAIN sel |-> Core(sel[i].preview_data)]

\* C3: when a load ends, every valid record of every list that was read is in
\* the collection, whatever malformed records or files came before it.
C3_Isolation ==
    pc \in {"returned", "raised"} => LoadedCores = offered

\* C4: when files exist and none yields a valid record, load_recipes fails with
\* ValueError (NoValidRecords) and the failure lists the warnings collected.
C4_NoValidRecords ==
    (pc = "raised" /\ n_files > 0) =>
        /\ error.cls = "ValueError"
        /\ \A i \in DOMAIN warnings : warnings[i] \in Range(error.listed)

\* C5: a file whose content is one valid record, an object with no "recipes" key,
\* gives the one-element record list holding that record.
C5_BareRecord ==
    (pc = "loop" /\ data.t = "obj" /\ ValidItem(DictItem(data.rec), IsFilipino(file_name)))
        => recipes = <<DictItem(data.rec)>>

\* C6: every recipe of the collection has every required field and categories,
\* and neither its ingredients nor its instructions are null.
C6_RequiredFields ==
    \A i \in DOMAIN all_recipes :
        LET r == all_recipes[i].preview_data
        IN /\ MissingFields(r) = <<>>
           /\ "categories" \in DOMAIN r
           /\ r["ingredients"].k # "null"
           /\ r["instructions"].k # "null"

BOX_BULLET == <<"BOX", " ">>

\* An ingredient without its leading bullet, in either form of the glyph.
WithoutLeadingBullet(ing) ==
    IF IsPrefix(BOX_BULLET, ing) THEN SubSeq(ing, Len(BOX_BULLET) + 1, Len(ing))
    ELSE IF IsPrefix(BULLET_LITERAL, ing) THEN SubSeq(ing, Len(BULLET_LITERAL) + 1, Len(ing))
    ELSE ing

\* The canonical record the mapping rules give for an alternate-dialect record.
CanonicalOf(r) ==
    [name |-> Get(r, "title", UNKNOWN_FILIPINO),
     difficulty |-> MEDIUM,
     prep_time |-> PREP_15,
     cook_time |-> Get(r, "cooking_time", COOK_30),
     servings |-> Get(r, "servings", SERVINGS_4),
     ingredients |->
        LET v == Get(r, "ingredients", ListV(<<>>))
        IN ListV([i \in DOMAIN v.l |-> WithoutLeadingBullet(v.l[i])]),
     instructions |-> Get(r, "instructions", ListV(<<>>)),
     categories |-> CategoryList(r)]

\* C7: parse_filipino_recipe gives the canonical record of the mapping rules, each
\* ingredient without its leading bullet glyph, read correctly or as cp1252.
C7_Normalized ==
    parsed.ok => parsed.val = CanonicalOf(raw)

\* The smallest k with k * d >= n
CeilDiv(n, d) == CHOOSE k \in 0..n : k * d >= n /\ (k = 0 \/ (k - 1) * d < n)

C9_OutOfRange ==
    (result.status # "none" /\ ~SearchRaises(query)
        /\ (result.page < 1 \/ result.page > TotalPages(Len(FilteredRows(df, query)), per_page)))
    => /\ result.status = "ok"
       /\ result.rows = <<>>
       /\ df # <<>> => result.total_pages = TotalPages(Len(FilteredRows(df, query)), per_page)

\* term is a substring of str, letter case aside
ContainsIgnoreCase(str, term) ==
    \E i \in 0..(Len(str) - Len(term)) :
        SubSeq(Lower(str), i + 1, i + Len(term)) = Lower(term)

\* The filtered records when the search term is a literal substring.
LiteralFilteredRows(rows, q) ==
    CategoryStep(
        DifficultyStep(
            SelectSeq(FavoritesStep(rows, q.show_favorites, q.favorites),
                      LAMBDA r : r.name.k = "str" /\ ContainsIgnoreCase(r.name.s, q.search_term)),
            q.difficulty),
        q.category)

\* C10: with a search term that is not empty the call returns, and what it
\* returns is the page of the records whose name holds the term as a literal
\* substring, letter case aside.
C10_LiteralSearch ==
    (result.status # "none" /\ df # <<>> /\ query.search_term # <<>>) =>
        /\ result.status = "ok"
        /\ result.rows = Paginate(LiteralFilteredRows(df, query), result.page, per_page)
        /\ result.total_pages = TotalPages(Len(LiteralFilteredRows(df, query)), per_page)

\* The query that restricts nothing, and q cut down to one of its criteria.
NoCriteria ==
    [search_term |-> <<>>, difficulty |-> Null, category |-> ALL,
     show_favorites |-> FALSE, favorites |-> Favorites(FALSE, {})]

OnlyFavorites(q) ==
    [NoCriteria EXCEPT !.show_favorites = q.show_favorites, !.favorites = q.favorites]

OnlySearch(q) == [NoCriteria EXCEPT !.search_term = q.search_term]

OnlyDifficulty(q) == [NoCriteria EXCEPT !.difficulty = q.difficulty]

OnlyCategory(q) == [NoCriteria EXCEPT !.category = q.category]

\* The records a call gives under q when one page holds the whole collection.
Alone(frame, q) == Range(filter_recipes(frame, q, 1, Len(frame)).rows)

\* The records of the collection that every criterion alone keeps, in
\* collection order.
Intersection(frame, q) ==
    SelectSeq(frame, LAMBDA r : /\ r \in Alone(frame, OnlyFavorites(q))
                                /\ r \in Alone(frame, OnlySearch(q))
                                /\ r \in Alone(frame, OnlyDifficulty(q))
                                /\ r \in Alone(frame, OnlyCategory(q)))

SameHashInput(r1, r2) ==
    r1["name"] = r2["name"] /\ r1["ingredients"] = r2["ingredients"]

After(id, k) == ((id - 1 + k) % ID_SPACE) + 1

\* C13: for a recipe of the data model and any seen_ids, generate_unique_id
\* returns; the id is in 1..1000000 and not in seen_ids, and it is the first
\* such id in the probe order base, base + 1, ..., 1000000, 1, ... that starts
\* at (hash mod 1000000) + 1.
C13_ProbeTerminates ==
    (gen_result # NotGenerated /\ ValidRecipe(gen_recipe)) =>
        /\ gen_result.ok
        /\ gen_result.val \in 1..ID_SPACE
        /\ IntV(gen_result.val) \notin SeenIds(gen_seen)
        /\ LET base == BaseId(Format(gen_recipe["name"])
                                 \o Concat(gen_recipe["ingredients"].l))
           IN \E k \in 0..4 :
                 /\ gen_result.val = After(base, k)
                 /\ \A m \in 0..(k - 1) : IntV(After(base, m)) \in SeenIds(gen_seen)

\* C14: in the list view, whenever the filter_recipes call of a run returns, the
\* page number it was passed is within 1..max(1, total_pages), and a filtered
\* result that is not empty shows a page that is not empty.
C14_PageInRange ==
    view.status = "ok" =>
        /\ view.page >= 1
        /\ view.page <= (IF view.total_pages > 1 THEN view.total_pages ELSE 1)
        /\ view.total_pages >= 1 => view.rows # <<>>

====
